---- MODULE Spec2Model ----
(***************************************************************************)
(* Model of the temporal entity versioning engine of FoodDiary             *)
(* (src/data/entities/entity_base.py, EntityBase) instantiated by          *)
(* DiaryEntries (src/data/entities/diary_entry.py) on top of the blob      *)
(* adapter (src/data/interfaces/blob.py).                                  *)
(*                                                                         *)
(* The stored table is one blob: it either does not exist or holds a       *)
(* sequence of rows.  A row is a function from the schema's column names   *)
(* to values.  Identifiers produced by _generate_uuid are the integers     *)
(* 1, 2, ... in generation order; ForeignId is an identifier that a caller *)
(* can write down but that the generator never produces.  Timestamps are   *)
(* integers (microseconds of the UTC clock); every reading of the clock is  *)
(* later than the one before it.                                           *)
(***************************************************************************)
EXTENDS Integers, Sequences, FiniteSets, TLC

VARIABLES blob, clock, nextId, last, hist, forged, writers, log, cons,
          failures, lazy

vars == <<blob, clock, nextId, last, hist, forged, writers, log, cons,
          failures, lazy>>

(* ------------------------------ bounds --------------------------------- *)

\* largest number of rows the stored table is allowed to reach
MaxRows == 3

\* number of overwrites the concurrent writers may perform in one behaviour
MaxWrites == 3

\* number of calls of one behaviour whose data names a versioning column
MaxForged == 2

\* number of store operations that fail in one behaviour
MaxFailures == 2

\* longest additional-fields mapping tried by the schema composer
MaxFields == 3

(* ------------------------------ values --------------------------------- *)

\* an identifier no call of _generate_uuid returns
ForeignId == 0

\* the value of a column a record does not supply
Null == "null"

\* return value of a call that returned nothing
None == -1

(* ------------------------------ schema --------------------------------- *)

REQUIRED_FIELDS == <<"Id", "InstanceId", "CreatedDate", "IsCurrent">>

additional_schema == <<"UserId", "Food", "ConsumedAt", "Notes">>

Keys(seq) == {seq[i] : i \in DOMAIN seq}

\* a validation that reports the first colliding name only
reserved_conflicts_first(additional) ==
    LET C == Keys(additional) \cap Keys(REQUIRED_FIELDS)
    IN  IF C = {} THEN {}
        ELSE {additional[CHOOSE i \in DOMAIN additional :
                 /\ additional[i] \in C
                 /\ \A j \in DOMAIN additional : additional[j] \in C => i <= j]}

\* set(additional.keys()) & set(self.REQUIRED_FIELDS.keys())
reserved_conflicts(additional) == Keys(additional) \cap Keys(REQUIRED_FIELDS)

\* EntityBase.__init__: the composed schema, or the ValueError with the
\* colliding names
compose_schema(additional) ==
    IF reserved_conflicts(additional) # {}
    THEN [raised |-> "ValueError", conflicts |-> reserved_conflicts(additional),
          schema |-> <<>>]
    ELSE [raised |-> "", conflicts |-> {},
          schema |-> REQUIRED_FIELDS \o additional]

\* self.schema of DiaryEntries
schema == compose_schema(additional_schema).schema

(* ------------------------------ records -------------------------------- *)

\* {**base, **data}: the later mapping wins on a shared key
dict_merge(base, data) ==
    [k \in (DOMAIN base) \cup (DOMAIN data) |->
        IF k \in DOMAIN data THEN data[k] ELSE base[k]]

\* pl.DataFrame([record], schema=self.schema): one row with exactly the
\* schema's columns; keys outside the schema are dropped, columns the record
\* does not supply are null
data_frame(record) ==
    [f \in Keys(schema) |-> IF f \in DOMAIN record THEN record[f] ELSE Null]

\* create that builds the record from the generated fields alone
create_record_nodata(instance_id, now, data) ==
    [Id |-> instance_id, InstanceId |-> instance_id,
     CreatedDate |-> now, IsCurrent |-> TRUE]

\* the record built by create (entity_base.py 117-124)
create_record(instance_id, now, data) ==
    dict_merge([Id |-> instance_id, InstanceId |-> instance_id,
                CreatedDate |-> now, IsCurrent |-> TRUE], data)

\* the record built by update (entity_base.py 178-185)
update_record(new_id, instance_id, now, data) ==
    dict_merge([Id |-> new_id, InstanceId |-> instance_id,
                CreatedDate |-> now, IsCurrent |-> TRUE], data)

(* ------------------------------ the store ------------------------------ *)

NoBlob == [exists |-> FALSE, rows |-> <<>>]

\* file_client.upload_data(..., overwrite=True)
upload_to_adlfs(df) == [exists |-> TRUE, rows |-> df]

\* check_exists(self.file_path)
check_exists(b) == b.exists

\* load_all(): the empty frame when the blob is missing, else its rows
load_all(b) == IF ~check_exists(b) THEN <<>> ELSE b.rows

\* df.filter(pred), keeping row order
RECURSIVE filter_rows(_, _, _)
filter_rows(rows, col, val) ==
    IF rows = <<>> THEN <<>>
    ELSE IF Head(rows)[col] = val
         THEN <<Head(rows)>> \o filter_rows(Tail(rows), col, val)
         ELSE filter_rows(Tail(rows), col, val)

\* load_current(): load_all().filter(IsCurrent == True)
load_current(b) == filter_rows(load_all(b), "IsCurrent", TRUE)

\* the rows of df for which pred holds, as a set of positions
Positions(df, instance_id) ==
    {i \in DOMAIN df : df[i]["InstanceId"] = instance_id}

\* sort("CreatedDate") of the rows with InstanceId == instance_id: every
\* arrangement of those rows with non-decreasing CreatedDate (the order of
\* rows with equal keys is not fixed by the sort)
sorted_by_created(df, instance_id) ==
    LET P == Positions(df, instance_id)
        n == Cardinality(P)
        Perms == {f \in [1..n -> P] : \A i, j \in 1..n : i # j => f[i] # f[j]}
    IN  {[i \in 1..n |-> df[f[i]]] : f \in
            {g \in Perms : \A i, j \in 1..n :
                i < j => df[g[i]]["CreatedDate"] <= df[g[j]]["CreatedDate"]}}

\* get_instance_history(instance_id): the possible results
get_instance_history(b, instance_id) ==
    sorted_by_created(load_all(b), instance_id)

\* a write that uploads the new record alone, whether or not a table exists
write_record_replace(b, record) == upload_to_adlfs(<<data_frame(record)>>)

\* _write_record(record) (entity_base.py 202-217)
write_record(b, record) ==
    LET new_df == <<data_frame(record)>>
    IN  IF check_exists(b)
        THEN upload_to_adlfs(b.rows \o new_df)
        ELSE upload_to_adlfs(new_df)

\* the rows of all_data with InstanceId == instance_id and IsCurrent == True
current_rows(all_data, instance_id) ==
    filter_rows(filter_rows(all_data, "InstanceId", instance_id),
                "IsCurrent", TRUE)

\* a supersession that forgets the InstanceId test
mark_not_current_any(all_data, instance_id) ==
    [i \in DOMAIN all_data |-> [all_data[i] EXCEPT !["IsCurrent"] = FALSE]]

\* a supersession that inverts the flag of every version of the instance
mark_not_current_toggle(all_data, instance_id) ==
    [i \in DOMAIN all_data |->
        IF all_data[i]["InstanceId"] = instance_id
        THEN [all_data[i] EXCEPT !["IsCurrent"] = ~all_data[i]["IsCurrent"]]
        ELSE all_data[i]]

\* with_columns(when(InstanceId == instance_id & IsCurrent).then(False)
\*              .otherwise(IsCurrent))   (entity_base.py 167-175)
mark_not_current(all_data, instance_id) ==
    [i \in DOMAIN all_data |->
        IF all_data[i]["InstanceId"] = instance_id /\ all_data[i]["IsCurrent"] = TRUE
        THEN [all_data[i] EXCEPT !["IsCurrent"] = FALSE]
        ELSE all_data[i]]

\* an update that fills the columns data omits from the current version
update_frame_carry(all_data, instance_id, data, new_id, now) ==
    IF Len(current_rows(all_data, instance_id)) = 0
    THEN [raised |-> "ValueError", combined |-> <<>>, ret |-> None]
    ELSE [raised |-> "",
          combined |-> mark_not_current(all_data, instance_id)
                       \o <<data_frame(dict_merge(
                               current_rows(all_data, instance_id)[1],
                               update_record(new_id, instance_id, now, data)))>>,
          ret |-> new_id]

\* update computed from the materialized table all_data (entity_base.py
\* 155-194): the raised error, or the frame to upload and the returned Id
update_frame(all_data, instance_id, data, new_id, now) ==
    IF Len(current_rows(all_data, instance_id)) = 0
    THEN [raised |-> "ValueError", combined |-> <<>>, ret |-> None]
    ELSE [raised |-> "",
          combined |-> mark_not_current(all_data, instance_id)
                       \o <<data_frame(update_record(new_id, instance_id, now, data))>>,
          ret |-> new_id]

\* update that writes the materialized table back before it validates
update_blob_eager(b, instance_id, data, new_id, now) ==
    LET u == update_frame(load_all(b), instance_id, data, new_id, now)
    IN  IF u.raised # "" THEN upload_to_adlfs(load_all(b))
        ELSE upload_to_adlfs(u.combined)

\* update(instance_id, data) run without interruption: the stored blob
\* after the call
update_blob(b, instance_id, data, new_id, now) ==
    LET u == update_frame(load_all(b), instance_id, data, new_id, now)
    IN  IF u.raised # "" THEN b ELSE upload_to_adlfs(u.combined)

(* ------------------------------ inputs --------------------------------- *)

\* data mappings that name no versioning column: one supplying every
\* declared column, and the mapping the debug endpoint passes
\* (function_app.py 14-19: no Food, and the undeclared key FoodId)
EntityData ==
    { [UserId |-> "u1", Food |-> "eggs", ConsumedAt |-> "T0", Notes |-> "breakfast"],
      [UserId |-> "user-123", FoodId |-> "food-456", ConsumedAt |-> "T1", Notes |-> "Breakfast"] }

\* the Id column and the InstanceId column of the stored table
StoredIds(b) == {b.rows[i]["Id"] : i \in DOMAIN b.rows}

StoredInstanceIds(b) == {b.rows[i]["InstanceId"] : i \in DOMAIN b.rows}

\* instance identifiers a caller can name: those stored in the table, and
\* ForeignId
KnownIds(b) == {ForeignId} \cup StoredInstanceIds(b)

\* data mappings that name a versioning column
VersioningData(b) ==
    {[Id |-> i] : i \in StoredIds(b)} \cup {[InstanceId |-> i] : i \in KnownIds(b)}
    \cup {[CreatedDate |-> 0], [IsCurrent |-> FALSE]}

VersioningFields == Keys(REQUIRED_FIELDS)

Forged(data) == IF (DOMAIN data) \cap VersioningFields # {} THEN 1 ELSE 0

DataInputs(b, f) == EntityData \cup (IF f < MaxForged THEN VersioningData(b) ELSE {})

(* ------------------------- sequential callers -------------------------- *)

\* the outcome of the latest call, as its caller sees it
Call(op, instance_id, data, ret, raised, result) ==
    [op |-> op, instance_id |-> instance_id, data |-> data, ret |-> ret,
     raised |-> raised, result |-> result]

NoCall == Call("", None, <<>>, None, "", <<>>)

\* no concurrent writer is active in the sequential specification
NoWriters == <<>>

\* no table definition is under construction
NoCons == [additional |-> <<>>, raised |-> "", conflicts |-> {}, schema |-> <<>>,
           done |-> FALSE]

\* no LazyFrame is held by a caller
NoFrame == [kind |-> "none", rows |-> <<>>, existed |-> FALSE, seen |-> 0]

\* what the callers have been told: for each InstanceId returned by create,
\* the number k of successful updates of it and the Id its latest
\* create/update returned
hist_create(h, instance_id) ==
    [i \in (DOMAIN h) \cup {instance_id} |->
        IF i = instance_id THEN [k |-> 0, ret |-> instance_id] ELSE h[i]]

hist_update(h, instance_id, new_id) ==
    [i \in DOMAIN h |->
        IF i = instance_id THEN [k |-> h[i].k + 1, ret |-> new_id] ELSE h[i]]

Init ==
    /\ blob = NoBlob
    /\ clock = 1
    /\ nextId = 1
    /\ last = NoCall
    /\ hist = <<>>
    /\ forged = 0
    /\ writers = NoWriters
    /\ log = <<>>
    /\ cons = NoCons
    /\ failures = 0
    /\ lazy = NoFrame

\* create(data) (entity_base.py 101-127)
Create(data) ==
    /\ Len(load_all(blob)) < MaxRows
    /\ blob' = write_record(blob, create_record(nextId, clock, data))
    /\ last' = Call("create", None, data, nextId, "", <<>>)
    /\ hist' = hist_create(hist, nextId)
    /\ nextId' = nextId + 1
    /\ clock' = clock + 1
    /\ forged' = forged + Forged(data)
    /\ UNCHANGED <<writers, log, cons, failures, lazy>>

\* update(instance_id, data) (entity_base.py 129-194)
Update(instance_id, data) ==
    LET u == update_frame(load_all(blob), instance_id, data, nextId, clock)
    IN  /\ u.raised = "" => Len(load_all(blob)) < MaxRows
        /\ blob' = update_blob(blob, instance_id, data, nextId, clock)
        /\ last' = Call("update", instance_id, IF u.raised = "" THEN data ELSE <<>>,
                        u.ret, u.raised, <<>>)
        /\ hist' = IF u.raised = "" THEN hist_update(hist, instance_id, u.ret) ELSE hist
        /\ nextId' = IF u.raised = "" THEN nextId + 1 ELSE nextId
        /\ clock' = IF u.raised = "" THEN clock + 1 ELSE clock
        /\ forged' = IF u.raised = "" THEN forged + Forged(data) ELSE forged
        /\ UNCHANGED <<writers, log, cons, failures, lazy>>

\* a load_all that initialises a missing blob with an empty table
LoadAll_init ==
    /\ last' = Call("load_all", None, <<>>, None, "", load_all(blob))
    /\ blob' = IF check_exists(blob) THEN blob ELSE upload_to_adlfs(<<>>)
    /\ UNCHANGED <<clock, nextId, hist, forged, writers, log, cons, failures, lazy>>

\* load_all().collect() (entity_base.py 78-90)
LoadAll ==
    /\ last' = Call("load_all", None, <<>>, None, "", load_all(blob))
    /\ UNCHANGED <<blob, clock, nextId, hist, forged, writers, log, cons, failures, lazy>>

\* load_current().collect() (entity_base.py 92-99)
LoadCurrent ==
    /\ last' = Call("load_current", None, <<>>, None, "", load_current(blob))
    /\ UNCHANGED <<blob, clock, nextId, hist, forged, writers, log, cons, failures, lazy>>

\* get_instance_history(instance_id) (entity_base.py 230-245)
GetInstanceHistory(instance_id) ==
    /\ \E h \in get_instance_history(blob, instance_id) :
          last' = Call("get_instance_history", instance_id, <<>>, None, "", h)
    /\ UNCHANGED <<blob, clock, nextId, hist, forged, writers, log, cons, failures, lazy>>

Next ==
    \/ \E data \in DataInputs(blob, forged) : Create(data)
    \/ \E instance_id \in KnownIds(blob) : \E data \in DataInputs(blob, forged) :
          Update(instance_id, data)
    \/ LoadAll
    \/ LoadCurrent
    \/ \E instance_id \in KnownIds(blob) : GetInstanceHistory(instance_id)

Spec == Init /\ [][Next]_vars

TypeOK ==
    /\ blob.exists \in BOOLEAN
    /\ Len(blob.rows) <= MaxRows
    /\ \A i \in DOMAIN blob.rows : DOMAIN blob.rows[i] = Keys(schema)

(* ------------------------- concurrent callers -------------------------- *)

\* independent callers of create/update on the same table
Writers == {1, 2}

\* a caller between two calls, with the outcome of its latest call
IdleWriter(ret, raised) ==
    [pc |-> "idle", op |-> "", instance_id |-> None, data |-> <<>>,
     record |-> <<>>, exists |-> FALSE, snapshot |-> <<>>, combined |-> <<>>,
     readAt |-> 0, ret |-> ret, raised |-> raised]

\* number of overwrites performed so far
version == Len(log)

Active == {w \in DOMAIN writers : writers[w].pc # "idle"}

InitConc ==
    /\ blob = NoBlob
    /\ clock = 1
    /\ nextId = 1
    /\ last = NoCall
    /\ hist = <<>>
    /\ forged = 0
    /\ writers = [w \in Writers |-> IdleWriter(None, "")]
    /\ log = <<>>
    /\ cons = NoCons
    /\ failures = 0
    /\ lazy = NoFrame

\* create, up to the call of _write_record (entity_base.py 117-126)
StartCreate(w, data) ==
    /\ writers[w].pc = "idle"
    /\ version + Cardinality(Active) < MaxWrites
    /\ writers' = [writers EXCEPT ![w] =
          [@ EXCEPT !.pc = "c_exists", !.op = "create", !.data = data,
                    !.record = create_record(nextId, clock, data),
                    !.ret = nextId, !.raised = ""]]
    /\ clock' = clock + 1
    /\ nextId' = nextId + 1
    /\ UNCHANGED <<blob, last, hist, forged, log, cons, failures, lazy>>

\* _write_record: check_exists(self.file_path) (entity_base.py 210)
CreateCheckExists(w) ==
    /\ writers[w].pc = "c_exists"
    /\ writers' = [writers EXCEPT ![w] =
          IF check_exists(blob)
          THEN [@ EXCEPT !.pc = "c_read", !.exists = TRUE]
          ELSE [@ EXCEPT !.pc = "c_upload", !.exists = FALSE,
                         !.snapshot = <<>>, !.readAt = version]]
    /\ UNCHANGED <<blob, clock, nextId, last, hist, forged, log, cons, failures, lazy>>

\* _write_record: pl.read_parquet(...) (entity_base.py 212)
CreateRead(w) ==
    /\ writers[w].pc = "c_read"
    /\ writers' = [writers EXCEPT ![w] =
          [@ EXCEPT !.pc = "c_upload", !.snapshot = blob.rows, !.readAt = version]]
    /\ UNCHANGED <<blob, clock, nextId, last, hist, forged, log, cons, failures, lazy>>

\* the overwrite that ends a call, and the call's return
Overwrite(w, df) ==
    /\ blob' = upload_to_adlfs(df)
    /\ log' = Append(log, [writer |-> w, op |-> writers[w].op,
                           readAt |-> writers[w].readAt,
                           snapshot |-> writers[w].snapshot,
                           row |-> df[Len(df)],
                           ret |-> writers[w].ret, raised |-> ""])
    /\ writers' = [writers EXCEPT ![w] =
                      IdleWriter(writers[w].ret, "")]
    /\ UNCHANGED <<clock, nextId, last, hist, forged, cons, failures, lazy>>

\* a create whose overwrite appends to the table as it is when written
CreateUpload_reread(w) ==
    /\ writers[w].pc = "c_upload"
    /\ Overwrite(w, write_record(blob, writers[w].record).rows)

\* _write_record: _upload_to_adlfs(combined) or _upload_to_adlfs(new_df)
\* (entity_base.py 213-217), and create's return
CreateUpload(w) ==
    /\ writers[w].pc = "c_upload"
    /\ Overwrite(w, write_record([exists |-> writers[w].exists,
                                  rows |-> writers[w].snapshot],
                                 writers[w].record).rows)

\* update: load_all() with its check_exists (entity_base.py 153, 85); on a
\* missing blob the empty frame is collected and validated at once
UpdateCheckExists(w, instance_id, data) ==
    /\ writers[w].pc = "idle"
    /\ version + Cardinality(Active) < MaxWrites
    /\ writers' = [writers EXCEPT ![w] =
          IF check_exists(blob)
          THEN [@ EXCEPT !.pc = "u_read", !.op = "update",
                         !.instance_id = instance_id, !.data = data,
                         !.ret = None, !.raised = ""]
          ELSE IdleWriter(None,
                          update_frame(<<>>, instance_id, data, nextId, clock).raised)]
    /\ UNCHANGED <<blob, clock, nextId, last, hist, forged, log, cons, failures, lazy>>

\* update: collect() reads the blob, then the validation and the new
\* version are computed from what was read (entity_base.py 153-189)
UpdateCollect(w) ==
    /\ writers[w].pc = "u_read"
    /\ LET u == update_frame(blob.rows, writers[w].instance_id,
                             writers[w].data, nextId, clock)
       IN  IF u.raised # ""
           THEN /\ writers' = [writers EXCEPT ![w] = IdleWriter(None, u.raised)]
                /\ UNCHANGED <<clock, nextId>>
           ELSE /\ writers' = [writers EXCEPT ![w] =
                     [@ EXCEPT !.pc = "u_upload", !.snapshot = blob.rows,
                               !.combined = u.combined, !.readAt = version,
                               !.ret = u.ret]]
                /\ clock' = clock + 1
                /\ nextId' = nextId + 1
    /\ UNCHANGED <<blob, last, hist, forged, log, cons, failures, lazy>>

\* an update whose overwrite appends its new version to the table as it is
\* when written
UpdateUpload_append(w) ==
    /\ writers[w].pc = "u_upload"
    /\ Overwrite(w, blob.rows \o <<writers[w].combined[Len(writers[w].combined)]>>)

\* update: _upload_to_adlfs(combined) (entity_base.py 192), and the return
UpdateUpload(w) ==
    /\ writers[w].pc = "u_upload"
    /\ Overwrite(w, writers[w].combined)

\* the concurrent callers pass data mappings of EntityData
NextConc ==
    \E w \in Writers :
        \/ \E data \in EntityData : StartCreate(w, data)
        \/ CreateCheckExists(w)
        \/ CreateRead(w)
        \/ CreateUpload(w)
        \/ \E instance_id \in KnownIds(blob) : \E data \in EntityData :
              UpdateCheckExists(w, instance_id, data)
        \/ UpdateCollect(w)
        \/ UpdateUpload(w)

SpecConc == InitConc /\ [][NextConc]_vars

(* ---------------------------- schema composer -------------------------- *)

\* column names an entity may declare
FieldNames == Keys(REQUIRED_FIELDS) \cup {"UserId", "Food"}

\* additional-fields mappings: up to MaxFields distinct names, in order
AdditionalSchemas ==
    UNION {{a \in [1..n -> FieldNames] : \A i, j \in 1..n : i # j => a[i] # a[j]}
           : n \in 0..MaxFields}

InitSchema ==
    /\ blob = NoBlob
    /\ clock = 1
    /\ nextId = 1
    /\ last = NoCall
    /\ hist = <<>>
    /\ forged = 0
    /\ writers = NoWriters
    /\ log = <<>>
    /\ cons \in {[NoCons EXCEPT !.additional = a] : a \in AdditionalSchemas}
    /\ failures = 0
    /\ lazy = NoFrame

\* EntityBase.__init__ (entity_base.py 32-56)
Construct ==
    /\ ~cons.done
    /\ LET c == compose_schema(cons.additional)
       IN  cons' = [additional |-> cons.additional, raised |-> c.raised,
                    conflicts |-> c.conflicts, schema |-> c.schema, done |-> TRUE]
    /\ UNCHANGED <<blob, clock, nextId, last, hist, forged, writers, log,
                   failures, lazy>>

NextSchema == Construct

SpecSchema == InitSchema /\ [][NextSchema]_vars

(* --------------------------- failing store ---------------------------- *)

\* the store operations create issues, in order (entity_base.py 210-217):
\* the existence check, the read when the blob exists, the overwrite
create_ops(b) ==
    <<"exists">> \o (IF check_exists(b) THEN <<"read">> ELSE <<>>) \o <<"upload">>

\* the store operations update issues, in order (entity_base.py 153-192):
\* the existence check, the read when the blob exists, and the overwrite
\* when a current version was found
update_ops(b, instance_id) ==
    <<"exists">> \o (IF check_exists(b) THEN <<"read">> ELSE <<>>)
    \o (IF Len(current_rows(load_all(b), instance_id)) = 0
        THEN <<>> ELSE <<"upload">>)

\* a call that tries the failed store operation a second time
issued_retry(ops, k) == SubSeq(ops, 1, k) \o <<ops[k]>>

\* the store operations a call has issued when its k-th one raises: the
\* exception leaves create/update at once (no try/except, no retry)
issued(ops, k) == SubSeq(ops, 1, k)

StorageError == "StorageUnavailableError"

\* create(data) whose k-th store operation raises
CreateFails(data, k) ==
    /\ failures < MaxFailures
    /\ k \in DOMAIN create_ops(blob)
    /\ last' = Call("create", None, <<>>, None, StorageError,
                    issued(create_ops(blob), k))
    /\ nextId' = nextId + 1
    /\ clock' = clock + 1
    /\ failures' = failures + 1
    /\ UNCHANGED <<blob, hist, forged, writers, log, cons, lazy>>

\* update(instance_id, data) whose k-th store operation raises; the new Id
\* and CreatedDate are generated only before the overwrite
UpdateFails(instance_id, data, k) ==
    LET ops == update_ops(blob, instance_id)
    IN  /\ failures < MaxFailures
        /\ k \in DOMAIN ops
        /\ last' = Call("update", instance_id, <<>>, None, StorageError,
                        issued(ops, k))
        /\ nextId' = IF ops[k] = "upload" THEN nextId + 1 ELSE nextId
        /\ clock' = IF ops[k] = "upload" THEN clock + 1 ELSE clock
        /\ failures' = failures + 1
        /\ UNCHANGED <<blob, hist, forged, writers, log, cons, lazy>>

\* a single caller of a store whose operations may fail
NextFail ==
    \/ \E data \in EntityData : Create(data)
    \/ \E instance_id \in KnownIds(blob) : \E data \in EntityData :
          Update(instance_id, data)
    \/ \E data \in EntityData : \E k \in 1..3 : CreateFails(data, k)
    \/ \E instance_id \in KnownIds(blob) : \E data \in EntityData : \E k \in 1..3 :
          UpdateFails(instance_id, data, k)

SpecFail == Init /\ [][NextFail]_vars

(* ----------------------------- lazy frames ----------------------------- *)

\* a load_all that materializes the table when it is called
lazy_load_all_cached(b) ==
    [kind |-> "frame", rows |-> load_all(b), existed |-> check_exists(b),
     seen |-> Len(b.rows)]

\* load_all() as the LazyFrame it returns (entity_base.py 85-90): the empty
\* in-memory frame when the blob is missing at the call, else a scan of the
\* blob that is read when consumed; existed and seen remember the blob at
\* the call
lazy_load_all(b) ==
    IF ~check_exists(b)
    THEN [kind |-> "frame", rows |-> <<>>, existed |-> FALSE, seen |-> 0]
    ELSE [kind |-> "scan", rows |-> <<>>, existed |-> TRUE, seen |-> Len(b.rows)]

\* LazyFrame.collect(): a scan reads the blob now, a frame yields its rows
collect(lf, b) == IF lf.kind = "scan" THEN b.rows ELSE lf.rows

\* lf = load_all(), kept by the caller
LoadAllLazy ==
    /\ lazy' = lazy_load_all(blob)
    /\ last' = Call("load_all", None, <<>>, None, "", <<>>)
    /\ UNCHANGED <<blob, clock, nextId, hist, forged, writers, log, cons, failures>>

\* lf.collect() on the LazyFrame kept by the caller
Collect ==
    /\ lazy.kind # "none"
    /\ last' = Call("collect", None, <<>>, None, "", collect(lazy, blob))
    /\ UNCHANGED <<blob, clock, nextId, hist, forged, writers, log, cons,
                   failures, lazy>>

NextLazy ==
    \/ \E data \in EntityData : Create(data)
    \/ \E instance_id \in KnownIds(blob) : \E data \in EntityData :
          Update(instance_id, data)
    \/ LoadAllLazy
    \/ Collect

SpecLazy == Init /\ [][NextLazy]_vars

(* ------------------------------- claims -------------------------------- *)

\* the record the latest successful create/update appended
Written == blob.rows[Len(blob.rows)]

\* C1: after any sequence of sequential successful create and update calls,
\* every InstanceId present in the stored table has exactly one record with
\* IsCurrent = true, and load_current() yields exactly M records, M the
\* number of instances created.
C1_OneCurrentPerInstance ==
    /\ \A iid \in StoredInstanceIds(blob) :
          Len(current_rows(load_all(blob), iid)) = 1
    /\ Len(load_current(blob)) = Cardinality(DOMAIN hist)

\* C2: after any sequence of sequential successful create and update calls
\* no two records of the stored table share an Id.
C2_UniqueIds ==
    \A i, j \in DOMAIN blob.rows :
        i # j => blob.rows[i]["Id"] # blob.rows[j]["Id"]

\* C3: for an instance created by create and then updated k times,
\* get_instance_history returns k+1 records in ascending CreatedDate order,
\* only the last of them current, and the last is the record whose Id the
\* most recent update returned.
C3_HistoryShape ==
    \A iid \in DOMAIN hist :
        \A h \in get_instance_history(blob, iid) :
            /\ Len(h) = hist[iid].k + 1
            /\ \A i \in 1..Len(h) : h[i]["IsCurrent"] = (i = Len(h))
            /\ h[Len(h)]["Id"] = hist[iid].ret

\* C4: within one InstanceId the CreatedDate values are strictly increasing
\* in the order of the calls that wrote the records (the order of the rows
\* of the table).
C4_CreatedDateIncreasing ==
    \A i, j \in DOMAIN blob.rows :
        (i < j /\ blob.rows[i]["InstanceId"] = blob.rows[j]["InstanceId"])
            => blob.rows[i]["CreatedDate"] < blob.rows[j]["CreatedDate"]

\* C5: update(instanceId, data) with no current record of instanceId in the
\* stored table raises the not-found error and leaves the blob as it was:
\* nothing overwritten, flipped or appended, a missing blob not created.
C5_UpdateNotFoundNoWrite ==
    [][ (/\ last'.op = "update"
         /\ Len(current_rows(load_all(blob), last'.instance_id)) = 0)
        => (last'.raised = "ValueError" /\ last'.ret = None /\ blob' = blob) ]_vars

C5_Witness ==
    /\ last.op = "update"
    /\ last.raised = "ValueError"
    /\ Len(load_all(blob)) >= 1
    /\ Len(current_rows(load_all(blob), last.instance_id)) = 0

\* C6: when the blob does not exist, load_all() and load_current() yield the
\* empty sequence without error and without writing: the blob still does
\* not exist afterwards.
C6_EmptyLoadNoWrite ==
    [][ (last'.op \in {"load_all", "load_current"} /\ ~check_exists(blob))
        => (/\ last'.raised = ""
            /\ last'.result = <<>>
            /\ blob' = blob
            /\ ~check_exists(blob')) ]_vars

C6_Witness ==
    /\ last.op = "load_current"
    /\ last.result = <<>>
    /\ ~check_exists(blob)

\* C7: right after create(data) returned iid, data naming entity-declared
\* fields only, get_instance_history(iid) is exactly one record with
\* Id = InstanceId = iid, IsCurrent = true and every field of data at its
\* supplied value, whether or not the blob existed before.
C7_CreateHistory ==
    (last.op = "create" /\ DOMAIN last.data \subseteq Keys(additional_schema))
    => /\ get_instance_history(blob, last.ret) # {}
       /\ \A h \in get_instance_history(blob, last.ret) :
            /\ Len(h) = 1
            /\ h[1]["Id"] = last.ret
            /\ h[1]["InstanceId"] = last.ret
            /\ h[1]["IsCurrent"] = TRUE
            /\ \A f \in DOMAIN last.data : h[1][f] = last.data[f]

C7_Witness ==
    /\ last.op = "create"
    /\ DOMAIN last.data \subseteq Keys(additional_schema)
    /\ DOMAIN last.data # {}
    /\ Len(blob.rows) >= 2
    /\ Written["Id"] = last.ret

\* C8: a create or update whose data names Id, InstanceId, CreatedDate or
\* IsCurrent is rejected, or the record it writes carries the engine's
\* values for those fields: the fresh Id, the InstanceId (the fresh Id on
\* create, the argument on update), the clock's CreatedDate, IsCurrent = true.
C8_VersioningFieldsNotTrusted ==
    (/\ last.op \in {"create", "update"}
     /\ (DOMAIN last.data) \cap VersioningFields # {})
    => \/ last.raised # ""
       \/ /\ Written["Id"] = last.ret
          /\ Written["InstanceId"] =
                (IF last.op = "create" THEN last.ret ELSE last.instance_id)
          /\ Written["CreatedDate"] = clock - 1
          /\ Written["IsCurrent"] = TRUE

\* C9: constructing a table definition whose additional fields share a name
\* with the required fields fails with the error naming exactly the
\* colliding names; without a collision the schema is the required fields
\* followed by the additional fields.
C9_SchemaComposition ==
    cons.done =>
        LET colliding == {f \in VersioningFields :
                             \E i \in DOMAIN cons.additional : cons.additional[i] = f}
        IN  IF colliding # {}
            THEN /\ cons.raised = "ValueError"
                 /\ cons.conflicts = colliding
                 /\ cons.schema = <<>>
            ELSE /\ cons.raised = ""
                 /\ Len(cons.schema) = 4 + Len(cons.additional)
                 /\ \A i \in 1..4 : cons.schema[i] = REQUIRED_FIELDS[i]
                 /\ \A i \in DOMAIN cons.additional :
                        cons.schema[4 + i] = cons.additional[i]

C9_Witness ==
    /\ cons.done
    /\ cons.raised = "ValueError"
    /\ Cardinality(cons.conflicts) >= 2
    /\ Cardinality(Keys(cons.additional)) > Cardinality(cons.conflicts)

\* C10: when two concurrent create/update calls both completed their read of
\* the blob (or their existence check on a missing blob) before either
\* overwrote it, both return without error, and the table after both
\* overwrites is what the later writer computed from that read: one row per
\* row read plus the later writer's record; the record the earlier writer
\* appended is not in it.
C10_LostUpdate ==
    LET n == Len(log)
    IN  (/\ n >= 2
         /\ log[n-1].writer # log[n].writer
         /\ log[n-1].readAt = n - 2
         /\ log[n].readAt = n - 2)
        => LET a == log[n-1]
               b == log[n]
               S == b.snapshot
           IN  /\ a.raised = "" /\ b.raised = ""
               /\ a.snapshot = S
               /\ Len(blob.rows) = Len(S) + 1
               /\ \A i \in DOMAIN S :
                     \A f \in Keys(schema) \ {"IsCurrent"} : blob.rows[i][f] = S[i][f]
               /\ blob.rows[Len(S) + 1] = b.row
               /\ \A i \in DOMAIN blob.rows :
                     blob.rows[i] # a.row /\ blob.rows[i]["Id"] # a.row["Id"]

C10_Witness ==
    LET n == Len(log)
    IN  /\ n >= 3
        /\ log[n-1].writer # log[n].writer
        /\ log[n-1].readAt = n - 2
        /\ log[n].readAt = n - 2
        /\ log[n-1].op = "update"
        /\ log[n].op = "create"
        /\ \A i \in DOMAIN blob.rows : blob.rows[i]["Id"] # log[n-1].ret

\* C11: a successful update(instanceId, data) changes nothing but the
\* IsCurrent flag of the records that had InstanceId = instanceId and
\* IsCurrent = true; every other record is the same in every field, and the
\* one new version is the only record added.
C11_UpdateFrame ==
    [][ (last'.op = "update" /\ last'.raised = "")
        => /\ Len(blob'.rows) = Len(blob.rows) + 1
           /\ \A i \in DOMAIN blob.rows :
                IF /\ blob.rows[i]["InstanceId"] = last'.instance_id
                   /\ blob.rows[i]["IsCurrent"] = TRUE
                THEN blob'.rows[i] = [blob.rows[i] EXCEPT !["IsCurrent"] = FALSE]
                ELSE blob'.rows[i] = blob.rows[i] ]_vars

C11_Witness ==
    /\ last.op = "update"
    /\ last.raised = ""
    /\ (DOMAIN last.data) \cap VersioningFields = {}
    /\ \E i \in DOMAIN blob.rows :
          /\ blob.rows[i]["InstanceId"] # last.instance_id
          /\ blob.rows[i]["IsCurrent"] = TRUE
    /\ \E i \in DOMAIN blob.rows :
          /\ blob.rows[i]["InstanceId"] = last.instance_id
          /\ blob.rows[i]["IsCurrent"] = FALSE

\* C12: when the stored table holds more than one record with
\* InstanceId = instanceId and IsCurrent = true, update(instanceId, data)
\* raises no error, sets IsCurrent = false on all of them and appends exactly
\* one new record with IsCurrent = true, so that exactly one record of the
\* instance is current afterwards.
C12_SelfHealingUpdate ==
    [][ (/\ last'.op = "update"
         /\ Len(current_rows(load_all(blob), last'.instance_id)) > 1)
        => /\ last'.raised = ""
           /\ Len(blob'.rows) = Len(blob.rows) + 1
           /\ \A i \in DOMAIN blob.rows :
                 blob.rows[i]["InstanceId"] = last'.instance_id
                    => blob'.rows[i]["IsCurrent"] = FALSE
           /\ blob'.rows[Len(blob'.rows)]["IsCurrent"] = TRUE
           /\ Len(current_rows(load_all(blob'), last'.instance_id)) = 1 ]_vars

\* C13: under a single writer no record is ever removed from the stored
\* table and no field of an existing record other than IsCurrent changes;
\* each successful create or update adds exactly one record, and a failed
\* call leaves the number of records unchanged.
C13_AppendOnly ==
    [][ /\ Len(blob'.rows) >= Len(blob.rows)
        /\ \A i \in DOMAIN blob.rows :
              \A f \in Keys(schema) \ {"IsCurrent"} :
                  blob'.rows[i][f] = blob.rows[i][f]
        /\ (last'.op \in {"create", "update"} /\ last'.raised = "")
              => Len(blob'.rows) = Len(blob.rows) + 1
        /\ last'.raised # "" => Len(blob'.rows) = Len(blob.rows) ]_vars

C13_Witness ==
    /\ last.op = "create"
    /\ Len(blob.rows) >= 3
    /\ \E i \in DOMAIN blob.rows : blob.rows[i]["IsCurrent"] = FALSE

\* C14: under a single writer a record whose IsCurrent is false is never
\* current again; a record's IsCurrent changes only from true to false, and
\* only by a successful update of the record's InstanceId (never by create).
C14_SupersessionPermanent ==
    [][ \A i \in DOMAIN blob.rows :
          /\ i \in DOMAIN blob'.rows
          /\ blob.rows[i]["IsCurrent"] = FALSE => blob'.rows[i]["IsCurrent"] = FALSE
          /\ blob'.rows[i]["IsCurrent"] # blob.rows[i]["IsCurrent"]
                => /\ last'.op = "update"
                   /\ last'.raised = ""
                   /\ last'.instance_id = blob.rows[i]["InstanceId"] ]_vars

C14_Witness ==
    /\ last.op = "update"
    /\ last.raised = ""
    /\ Cardinality({i \in DOMAIN blob.rows :
                       /\ blob.rows[i]["InstanceId"] = last.instance_id
                       /\ blob.rows[i]["IsCurrent"] = FALSE}) >= 2

\* C15: the record written by create has InstanceId = Id, a record written
\* by update(instanceId, data) has InstanceId = instanceId and an Id other
\* than instanceId; hence every InstanceId present in the table has exactly
\* one record whose Id equals it, and that record is the first version
\* written for the instance.
C15_InstanceIdStable ==
    /\ (last.op = "create" /\ last.raised = "")
          => Written["InstanceId"] = Written["Id"]
    /\ (last.op = "update" /\ last.raised = "")
          => /\ Written["InstanceId"] = last.instance_id
             /\ Written["Id"] # last.instance_id
    /\ \A iid \in StoredInstanceIds(blob) :
          LET P == Positions(blob.rows, iid)
          IN  /\ Cardinality({i \in P : blob.rows[i]["Id"] = iid}) = 1
              /\ \A i \in P : blob.rows[i]["Id"] = iid => \A j \in P : i <= j

\* C16: the version appended by update(instanceId, data) has, for every
\* entity-declared field, the value data gives it, and null when data does
\* not supply it; no value is copied from the previous current version.
C16_NoCarryForward ==
    (last.op = "update" /\ last.raised = "")
    => \A f \in Keys(additional_schema) :
          Written[f] = (IF f \in DOMAIN last.data THEN last.data[f] ELSE Null)

C16_Witness ==
    /\ last.op = "update"
    /\ last.raised = ""
    /\ "Food" \notin DOMAIN last.data
    /\ "Notes" \in DOMAIN last.data
    /\ Written["Food"] = Null
    /\ \E i \in DOMAIN blob.rows :
          /\ i = Len(blob.rows) - 1
          /\ blob.rows[i]["InstanceId"] = last.instance_id
          /\ blob.rows[i]["Food"] = "eggs"

\* C17: when the existence check, the read or the overwrite fails during
\* create or update, the call fails with that error and issues no further
\* store operation (so at most one overwrite attempt), and the stored blob
\* is exactly its content from before the call.
C17_StorageFailurePropagates ==
    [][ last'.raised = StorageError
        => LET ops == last'.result
               all == IF last'.op = "create" THEN create_ops(blob)
                      ELSE update_ops(blob, last'.instance_id)
           IN  /\ last'.op \in {"create", "update"}
               /\ last'.ret = None
               /\ blob' = blob
               /\ Len(ops) >= 1 /\ Len(ops) <= Len(all)
               /\ \A i \in DOMAIN ops : ops[i] = all[i]
               /\ \A i \in DOMAIN ops : ops[i] = "upload" => i = Len(ops)
               /\ \A i, j \in DOMAIN ops : i # j => ops[i] # ops[j] ]_vars

C17_Witness ==
    /\ last.op = "update"
    /\ last.raised = StorageError
    /\ last.result = <<"exists", "read", "upload">>
    /\ Len(blob.rows) >= 1

\* C18 as claimed: every consumption of the sequence load_all() returned
\* yields the records of the blob as it is at consumption time, also when
\* the blob did not exist at the call of load_all() and exists by then.
C18_AlwaysRereads ==
    last.op = "collect" => last.result = load_all(blob)

\* C18, amended: when the blob existed at the call of load_all(), every
\* consumption of the returned sequence re-reads the store and yields the
\* blob's records as they are at consumption time; when the blob did not
\* exist at the call, every consumption yields no records, whatever has
\* been written since.
C18_RereadsIfExisted ==
    last.op = "collect"
    => /\ lazy.existed => last.result = blob.rows
       /\ ~lazy.existed => last.result = <<>>

C18_Witness ==
    /\ last.op = "collect"
    /\ lazy.existed
    /\ Len(last.result) > lazy.seen
    /\ \E i \in DOMAIN last.result :
          i <= lazy.seen /\ last.result[i]["IsCurrent"] = FALSE

\* C19: under any interleaving of concurrent create and update calls whose
\* data names no versioning field, starting from a missing blob, every
\* state of the stored blob has exactly one record with IsCurrent = true for
\* each InstanceId present in it.
C19_OneCurrentUnderConcurrency ==
    \A iid \in StoredInstanceIds(blob) :
        Len(current_rows(load_all(blob), iid)) = 1

C19_Witness ==
    LET n == Len(log)
    IN  /\ n >= 3
        /\ log[n-1].writer # log[n].writer
        /\ log[n-1].op = "update"
        /\ log[n].op = "update"
        /\ log[n-1].readAt = n - 2
        /\ log[n].readAt = n - 2
        /\ log[n-1].row["InstanceId"] = log[n].row["InstanceId"]
        /\ Len(blob.rows) = Len(log[n].snapshot) + 1

\* C20: under a single writer and a store that does not fail, every
\* update(iid, data) on an instance iid that create returned succeeds,
\* whatever calls came in between, and returns the Id of the record that is
\* then the sole current version of iid.
C20_StaysUpdatable ==
    [][ (last'.op = "update" /\ last'.instance_id \in DOMAIN hist)
        => /\ last'.raised = ""
           /\ LET cur == current_rows(load_all(blob'), last'.instance_id)
              IN  Len(cur) = 1 /\ cur[1]["Id"] = last'.ret ]_vars

====
